---- MODULE Spec2Model ----
(***************************************************************************)
(* Model of futures-util/src/stream/zip_latest.rs: the ZipLatest adapter,  *)
(* which zips two streams using their latest values.                       *)
(*                                                                         *)
(* A source is a scripted stream as built by the test module's             *)
(* stream_from_poll_iter: a list of outcomes handed out one per query,     *)
(* and completion once the list is used up.  A list may also hold a        *)
(* completion before its end: a stream that would yield again when queried *)
(* after completing, which is what `new` fuses the streams against.  The   *)
(* i-th item of a source carries the value i-1 (as iter_ok(0..n) does),    *)
(* the i-th failure the value i-1.  The adapter never inspects a value, it *)
(* only clones it.                                                         *)
(***************************************************************************)
EXTENDS Integers, Sequences, FiniteSets

\* ---- bounds -------------------------------------------------------------
\* longest script of a source in the general specification
MaxLen == 3
\* longest script of a never-failing source (items and not-ready only)
MaxReadyLen == 4
\* number of polls of the adapter in one behaviour: enough for both sources
\* to hand out every entry of their lists one poll at a time and to
\* complete
MaxPolls == 2 * (IF MaxLen < MaxReadyLen THEN MaxReadyLen ELSE MaxLen) + 2

\* ---- values -------------------------------------------------------------
\* Option::None of a slot, and the absent component of an outcome
NoItem == -1

Kinds == {"item", "pending", "none", "err"}
ReadyKinds == {"item", "pending"}

\* One outcome of a query: Ok(Ready(Some(val))), Ok(Pending),
\* Ok(Ready(None)) or Err(val).
Outcome(k, v) == [kind |-> k, val |-> v]
ReadyNone == Outcome("none", NoItem)
Pending == Outcome("pending", NoItem)
\* enqueue did not query the source at all
Skipped == Outcome("skipped", NoItem)

\* Number of entries of kind k among the first n entries of ks.
RECURSIVE CountKind(_, _, _)
CountKind(ks, k, n) ==
    IF n = 0 THEN 0
    ELSE CountKind(ks, k, n - 1) + (IF ks[n] = k THEN 1 ELSE 0)

\* The list of a scripted source from its sequence of kinds.
Script(ks) ==
    [i \in 1..Len(ks) |->
        IF ks[i] \in {"item", "err"}
        THEN Outcome(ks[i], CountKind(ks, ks[i], i - 1))
        ELSE Outcome(ks[i], NoItem)]

SeqsUpTo(S, n) == UNION {[1..m -> S] : m \in 0..n}

Scripts == {Script(ks) : ks \in SeqsUpTo(Kinds, MaxLen)}
ReadyScripts == {Script(ks) : ks \in SeqsUpTo(ReadyKinds, MaxReadyLen)}

\* ---- the sources --------------------------------------------------------
\* stream_from_poll_iter: `next` counts the queries made so far; a query
\* hands out the next entry of the list, or completion past its end.
PollSource(s) ==
    [stream |-> [list |-> s.list, next |-> s.next + 1],
     res    |-> IF s.next < Len(s.list) THEN s.list[s.next + 1]
                ELSE ReadyNone]

\* Fuse::poll_next that remembers a completion but still queries the
\* underlying stream after it.
FusePollNext_requery(f) ==
    LET r == PollSource(f.stream)
    IN  [stream |-> [stream |-> r.stream,
                     done   |-> (f.done \/ r.res.kind = "none")],
         res    |-> r.res]

\* Fuse::poll_next that also remembers a failure as the end of the stream.
FusePollNext_latcherr(f) ==
    IF f.done
    THEN [stream |-> f, res |-> ReadyNone]
    ELSE LET r == PollSource(f.stream)
         IN  [stream |-> [stream |-> r.stream,
                          done   |-> (r.res.kind \in {"none", "err"})],
              res    |-> r.res]

\* Fuse::poll_next: a fused stream that has completed answers completion
\* without querying the underlying stream; otherwise it delegates and
\* remembers a completion.
FusePollNext(f) ==
    IF f.done
    THEN [stream |-> f, res |-> ReadyNone]
    ELSE LET r == PollSource(f.stream)
         IN  [stream |-> [stream |-> r.stream,
                          done   |-> (r.res.kind = "none")],
              res    |-> r.res]

\* Fuse::is_done
is_done(f) == f.done

\* StreamExt::fuse
fuse(s) == [stream |-> s, done |-> FALSE]

\* ---- the adapter --------------------------------------------------------
VARIABLES stream1, stream2, queued1, queued1_fresh, queued2, queued2_fresh,
          out, seen

vars == <<stream1, stream2, queued1, queued1_fresh, queued2, queued2_fresh,
          out, seen>>

\* enqueue that queries the source whatever the slot holds.
enqueue_always(stream, queued, queued_fresh) ==
    LET p == FusePollNext(stream)
    IN  IF p.res.kind = "err"
        THEN [ok |-> FALSE, stream |-> p.stream, queued |-> queued,
              fresh |-> queued_fresh, seen |-> p.res]
        ELSE IF p.res.kind = "item"
        THEN [ok |-> TRUE, stream |-> p.stream, queued |-> p.res.val,
              fresh |-> TRUE, seen |-> p.res]
        ELSE [ok |-> TRUE, stream |-> p.stream, queued |-> queued,
              fresh |-> queued_fresh, seen |-> p.res]

\* enqueue that treats a failure of the source as not-ready.
enqueue_swallow(stream, queued, queued_fresh) ==
    IF queued = NoItem \/ ~queued_fresh
    THEN LET p == FusePollNext(stream)
         IN  IF p.res.kind = "item"
             THEN [ok |-> TRUE, stream |-> p.stream, queued |-> p.res.val,
                   fresh |-> TRUE, seen |-> p.res]
             ELSE [ok |-> TRUE, stream |-> p.stream, queued |-> queued,
                   fresh |-> queued_fresh, seen |-> p.res]
    ELSE [ok |-> TRUE, stream |-> stream, queued |-> queued,
          fresh |-> queued_fresh, seen |-> Skipped]

\* enqueue that empties the slot when the source completes.
enqueue_clear(stream, queued, queued_fresh) ==
    IF queued = NoItem \/ ~queued_fresh
    THEN LET p == FusePollNext(stream)
         IN  IF p.res.kind = "err"
             THEN [ok |-> FALSE, stream |-> p.stream, queued |-> queued,
                   fresh |-> queued_fresh, seen |-> p.res]
             ELSE IF p.res.kind = "item"
             THEN [ok |-> TRUE, stream |-> p.stream, queued |-> p.res.val,
                   fresh |-> TRUE, seen |-> p.res]
             ELSE IF p.res.kind = "none"
             THEN [ok |-> TRUE, stream |-> p.stream, queued |-> NoItem,
                   fresh |-> FALSE, seen |-> p.res]
             ELSE [ok |-> TRUE, stream |-> p.stream, queued |-> queued,
                   fresh |-> queued_fresh, seen |-> p.res]
    ELSE [ok |-> TRUE, stream |-> stream, queued |-> queued,
          fresh |-> queued_fresh, seen |-> Skipped]

\* enqueue: the refresh of one side.  ok = FALSE is the early return of `?`.
enqueue(stream, queued, queued_fresh) ==
    IF queued = NoItem \/ ~queued_fresh
    THEN LET p == FusePollNext(stream)
         IN  IF p.res.kind = "err"
             THEN [ok |-> FALSE, stream |-> p.stream, queued |-> queued,
                   fresh |-> queued_fresh, seen |-> p.res]
             ELSE IF p.res.kind = "item"
             THEN [ok |-> TRUE, stream |-> p.stream, queued |-> p.res.val,
                   fresh |-> TRUE, seen |-> p.res]
             ELSE [ok |-> TRUE, stream |-> p.stream, queued |-> queued,
                   fresh |-> queued_fresh, seen |-> p.res]
    ELSE [ok |-> TRUE, stream |-> stream, queued |-> queued,
          fresh |-> queued_fresh, seen |-> Skipped]

\* The results of a poll of the adapter.
Result(k, a, b) == [kind |-> k, v1 |-> a, v2 |-> b]
Pair(a, b) == Result("pair", a, b)
Done == Result("none", NoItem, NoItem)
NotReady == Result("pending", NoItem, NoItem)
Failure(e) == Result("err", e, NoItem)

\* The decision with each change a slip in lines 52-64 would make:
\* which = "keepfresh"  the emission leaves the freshness flags set
\*         "bothfresh"  fresh is f1 && f2
\*         "nofresh"    the emission arm lacks its `if fresh` guard
\*         "bothdone"   done is only "both streams are done"
\*         "eitherdone" done is "either stream is done"
\*         "slotempty"  the third disjunct of done lacks stream2.is_done()
DecideWith(which, s1, s2, q1, q2, f1, f2) ==
    LET fresh == IF which = "bothfresh" THEN f1 /\ f2
                 ELSE IF which = "nofresh" THEN TRUE
                 ELSE f1 \/ f2
        done  == IF which = "bothdone" THEN is_done(s1) /\ is_done(s2)
                 ELSE IF which = "eitherdone" THEN is_done(s1) \/ is_done(s2)
                 ELSE \/ is_done(s1) /\ is_done(s2)
                      \/ is_done(s1) /\ q1 = NoItem
                      \/ (which = "slotempty" \/ is_done(s2)) /\ q2 = NoItem
        keep  == which = "keepfresh"
    IN  IF q1 # NoItem /\ q2 # NoItem /\ fresh
        THEN [res |-> Pair(q1, q2), f1 |-> keep /\ f1, f2 |-> keep /\ f2]
        ELSE IF done
        THEN [res |-> Done, f1 |-> f1, f2 |-> f2]
        ELSE [res |-> NotReady, f1 |-> f1, f2 |-> f2]

Decide_keepfresh(s1, s2, q1, q2, f1, f2) ==
    DecideWith("keepfresh", s1, s2, q1, q2, f1, f2)

Decide_bothfresh(s1, s2, q1, q2, f1, f2) ==
    DecideWith("bothfresh", s1, s2, q1, q2, f1, f2)

Decide_nofresh(s1, s2, q1, q2, f1, f2) ==
    DecideWith("nofresh", s1, s2, q1, q2, f1, f2)

Decide_bothdone(s1, s2, q1, q2, f1, f2) ==
    DecideWith("bothdone", s1, s2, q1, q2, f1, f2)

Decide_eitherdone(s1, s2, q1, q2, f1, f2) ==
    DecideWith("eitherdone", s1, s2, q1, q2, f1, f2)

Decide_slotempty(s1, s2, q1, q2, f1, f2) ==
    DecideWith("slotempty", s1, s2, q1, q2, f1, f2)

\* ZipLatest::poll_next, lines 52-64: the decision once both sides were
\* refreshed.  s1, s2 are the fused streams, q1, q2 the slots, f1, f2 the
\* freshness flags after the refresh.
Decide(s1, s2, q1, q2, f1, f2) ==
    LET fresh == f1 \/ f2
        done  == \/ is_done(s1) /\ is_done(s2)
                 \/ is_done(s1) /\ q1 = NoItem
                 \/ is_done(s2) /\ q2 = NoItem
    IN  IF q1 # NoItem /\ q2 # NoItem /\ fresh
        THEN [res |-> Pair(q1, q2), f1 |-> FALSE, f2 |-> FALSE]
        ELSE IF done
        THEN [res |-> Done, f1 |-> f1, f2 |-> f2]
        ELSE [res |-> NotReady, f1 |-> f1, f2 |-> f2]

\* poll_next that refreshes both sides before it returns the first failure.
poll_next_bothfirst(s1, s2, q1, f1, q2, f2) ==
    LET e1 == enqueue(s1, q1, f1)
        e2 == enqueue(s2, q2, f2)
    IN  IF ~e1.ok \/ ~e2.ok
        THEN [res |-> Failure(IF ~e1.ok THEN e1.seen.val ELSE e2.seen.val),
              stream1 |-> e1.stream, queued1 |-> e1.queued,
              fresh1 |-> e1.fresh,
              stream2 |-> e2.stream, queued2 |-> e2.queued,
              fresh2 |-> e2.fresh,
              seen |-> <<e1.seen, e2.seen>>]
        ELSE LET d == Decide(e1.stream, e2.stream, e1.queued,
                             e2.queued, e1.fresh, e2.fresh)
             IN  [res |-> d.res,
                  stream1 |-> e1.stream, queued1 |-> e1.queued,
                  fresh1 |-> d.f1,
                  stream2 |-> e2.stream, queued2 |-> e2.queued,
                  fresh2 |-> d.f2,
                  seen |-> <<e1.seen, e2.seen>>]

\* ZipLatest::poll_next as a function of the adapter's state.
poll_next(s1, s2, q1, f1, q2, f2) ==
    LET e1 == enqueue(s1, q1, f1)
    IN  IF ~e1.ok
        THEN [res |-> Failure(e1.seen.val),
              stream1 |-> e1.stream, queued1 |-> q1, fresh1 |-> f1,
              stream2 |-> s2, queued2 |-> q2, fresh2 |-> f2,
              seen |-> <<e1.seen, Skipped>>]
        ELSE LET e2 == enqueue(s2, q2, f2)
             IN  IF ~e2.ok
                 THEN [res |-> Failure(e2.seen.val),
                       stream1 |-> e1.stream, queued1 |-> e1.queued,
                       fresh1 |-> e1.fresh,
                       stream2 |-> e2.stream, queued2 |-> q2, fresh2 |-> f2,
                       seen |-> <<e1.seen, e2.seen>>]
                 ELSE LET d == Decide(e1.stream, e2.stream, e1.queued,
                                      e2.queued, e1.fresh, e2.fresh)
                      IN  [res |-> d.res,
                           stream1 |-> e1.stream, queued1 |-> e1.queued,
                           fresh1 |-> d.f1,
                           stream2 |-> e2.stream, queued2 |-> e2.queued,
                           fresh2 |-> d.f2,
                           seen |-> <<e1.seen, e2.seen>>]

\* The adapter `new` builds from two lists, as a value, and what its
\* caller has received from it so far.
ZipLatest(l1, l2) ==
    [stream1 |-> fuse([list |-> l1, next |-> 0]),
     stream2 |-> fuse([list |-> l2, next |-> 0]),
     queued1 |-> NoItem, fresh1 |-> FALSE,
     queued2 |-> NoItem, fresh2 |-> FALSE,
     out |-> << >>]

\* The adapter z after n more polls.
RECURSIVE Polled(_, _)
Polled(z, n) ==
    IF n = 0 THEN z
    ELSE LET y == Polled(z, n - 1)
             p == poll_next(y.stream1, y.stream2, y.queued1, y.fresh1,
                            y.queued2, y.fresh2)
         IN  [stream1 |-> p.stream1, stream2 |-> p.stream2,
              queued1 |-> p.queued1, fresh1 |-> p.fresh1,
              queued2 |-> p.queued2, fresh2 |-> p.fresh2,
              out |-> Append(y.out, p.res)]

\* new: both streams fused, both slots empty and not fresh.
new(l1, l2) ==
    /\ stream1 = fuse([list |-> l1, next |-> 0])
    /\ stream2 = fuse([list |-> l2, next |-> 0])
    /\ queued1 = NoItem
    /\ queued1_fresh = FALSE
    /\ queued2 = NoItem
    /\ queued2_fresh = FALSE

\* The sources handed to the adapter: any script up to MaxLen, and the
\* never-failing scripts (items and not-ready only) up to MaxReadyLen.
Sources == Scripts \cup ReadyScripts

Init ==
    /\ \E l1 \in Sources, l2 \in Sources : new(l1, l2)
    /\ out = << >>
    /\ seen = << >>

\* One poll of the adapter by its caller; `out` records what the caller
\* received in each poll, `seen` what each side answered in each poll.
PollNext ==
    /\ Len(out) < MaxPolls
    /\ LET p == poll_next(stream1, stream2, queued1, queued1_fresh,
                          queued2, queued2_fresh)
       IN  /\ stream1' = p.stream1
           /\ stream2' = p.stream2
           /\ queued1' = p.queued1
           /\ queued1_fresh' = p.fresh1
           /\ queued2' = p.queued2
           /\ queued2_fresh' = p.fresh2
           /\ out' = Append(out, p.res)
           /\ seen' = Append(seen, p.seen)

Next == PollNext

Spec == Init /\ [][Next]_vars

\* The finite sources that never fail and are not ready finitely often.
LiveSources == ReadyScripts

InitLive ==
    /\ \E l1 \in LiveSources, l2 \in LiveSources : new(l1, l2)
    /\ out = << >>
    /\ seen = << >>

\* The caller keeps polling the adapter: the executor of block_on polls
\* again after every wake, and the scripted sources wake on every not-ready.
SpecLive == InitLive /\ [][Next]_vars /\ WF_vars(PollNext)

TypeOK ==
    /\ queued1 \in {NoItem} \cup Nat
    /\ queued2 \in {NoItem} \cup Nat
    /\ queued1_fresh \in BOOLEAN
    /\ queued2_fresh \in BOOLEAN
    /\ Len(out) <= MaxPolls
    /\ Len(seen) = Len(out)

\* ---- the claims ---------------------------------------------------------
\* The scripts the two sources were built from.
in1 == stream1.stream.list
in2 == stream2.stream.list

AllItems(l) == \A i \in 1..Len(l) : l[i].kind = "item"
NoErr(l) == \A i \in 1..Len(l) : l[i].kind # "err"
HasKind(l, k) == \E i \in 1..Len(l) : l[i].kind = k
Min(a, b) == IF a < b THEN a ELSE b
Max(a, b) == IF a < b THEN b ELSE a

\* The caller has received a prefix of: the results in exp, then completion
\* at every further poll.
ReceivedThenDone(exp) ==
    \A i \in 1..Len(out) : out[i] = IF i <= Len(exp) THEN exp[i] ELSE Done

\* Two always-ready, never-failing sources of n >= 1 items each.
SameLengthReady ==
    /\ AllItems(in1) /\ AllItems(in2)
    /\ Len(in1) = Len(in2) /\ Len(in1) >= 1

\* C1: two always-ready, never-failing sources of the same length n >= 1
\* give exactly n pairs, the i-th made of the i-th item of each source, and
\* then completion.
C1_SameLength ==
    SameLengthReady =>
        ReceivedThenDone([i \in 1..Len(in1) |-> Pair(in1[i].val, in2[i].val)])

C1_Witness ==
    SameLengthReady /\ Len(in1) >= 3 /\ Len(out) = Len(in1) + 1

\* Two always-ready, never-failing sources of different lengths m, n >= 1.
UnequalLengthReady ==
    /\ AllItems(in1) /\ AllItems(in2)
    /\ Len(in1) >= 1 /\ Len(in2) >= 1 /\ Len(in1) # Len(in2)

\* C2: two always-ready, never-failing sources of lengths m # n give
\* max(m,n) pairs and then completion; pair i is
\* (a[min(i,m)], b[min(i,n)]) counting from 1: the last value of the shorter
\* side is reused with every remaining item of the longer side.
C2_UnequalLength ==
    UnequalLengthReady =>
        ReceivedThenDone([i \in 1..Max(Len(in1), Len(in2)) |->
            Pair(in1[Min(i, Len(in1))].val, in2[Min(i, Len(in2))].val)])

C2_Witness ==
    /\ UnequalLengthReady /\ Len(in1) = 1 /\ Len(in2) >= 3
    /\ Len(out) = Len(in2) + 1
    /\ out[Len(in2)] = Pair(in1[1].val, in2[Len(in2)].val)

\* The source completes without ever yielding an item: its script is
\* not-ready outcomes up to a completion or up to its end.
Itemless(l) ==
    \E k \in 1..(Len(l) + 1) :
        /\ \A i \in 1..(k - 1) : l[i].kind = "pending"
        /\ k <= Len(l) => l[k].kind = "none"

\* C3: when no source fails and one of them completes without ever yielding
\* an item, no poll returns a pair (or a failure) under any interleaving of
\* not-ready outcomes: the adapter answers not-ready until that source has
\* completed and completion from that poll on.
C3_EmptySide ==
    (NoErr(in1) /\ NoErr(in2) /\ (Itemless(in1) \/ Itemless(in2))) =>
        /\ \A i \in 1..Len(out) : out[i].kind \in {"pending", "none"}
        /\ \A i \in 1..Len(out) :
              ((seen[i][1].kind = "none" /\ Itemless(in1))
                 \/ (seen[i][2].kind = "none" /\ Itemless(in2)))
              => out[i] = Done

C3_Witness ==
    /\ NoErr(in1) /\ NoErr(in2) /\ Itemless(in1) /\ ~Itemless(in2)
    /\ HasKind(in1, "pending") /\ HasKind(in2, "pending")
    /\ \E i \in 1..Len(out) : seen[i][2].kind = "item"
    /\ Len(out) >= 2 /\ out[Len(out)] = Done /\ out[1] = NotReady

\* What the caller received, and what the two sides answered, in the poll
\* that has just ended.
LastOut == out[Len(out)]
LastSeen == seen[Len(seen)]

\* A poll that starts with both slots non-empty, in which one side answers
\* not-ready and the other yields an item, returns the pair of the new item
\* and the value the not-ready side held.
HeldOverStep ==
    (queued1 # NoItem /\ queued2 # NoItem) =>
        /\ (LastSeen'[1].kind = "pending" /\ LastSeen'[2].kind = "item")
              => LastOut' = Pair(queued1, LastSeen'[2].val)
        /\ (LastSeen'[1].kind = "item" /\ LastSeen'[2].kind = "pending")
              => LastOut' = Pair(LastSeen'[1].val, queued2)

\* The sources of zip_with_yield_left and zip_with_yield_right.
YieldScript == Script(<<"item", "item", "pending", "item">>)
SteadyScript == Script(<<"item", "item", "item">>)

\* C4: with both slots non-empty, a poll in which one source is not ready
\* and the other yields a new item emits the new item paired with the
\* held-over value of the not-ready side; source 1 = 0,1,not-ready,2 with
\* source 2 = 0,1,2 gives (0,0),(1,1),(1,2),(2,2), and the mirrored sources
\* give (0,0),(1,1),(2,1),(2,2).
C4_HeldOver ==
    /\ [][HeldOverStep]_vars
    /\ []((in1 = YieldScript /\ in2 = SteadyScript) =>
            ReceivedThenDone(<<Pair(0, 0), Pair(1, 1), Pair(1, 2),
                               Pair(2, 2)>>))
    /\ []((in1 = SteadyScript /\ in2 = YieldScript) =>
            ReceivedThenDone(<<Pair(0, 0), Pair(1, 1), Pair(2, 1),
                               Pair(2, 2)>>))

C4_Witness ==
    /\ in1 = YieldScript /\ in2 = SteadyScript
    /\ Len(out) = 4
    /\ seen[3][1].kind = "pending" /\ seen[3][2].kind = "item"
    /\ out[3] = Pair(1, 2)

\* Some poll so far returned a failure.
FirstFailure(i) ==
    /\ i \in 1..Len(out) /\ out[i].kind = "err"
    /\ \A h \in 1..(i - 1) : out[h].kind # "err"

SideYielded(k) == seen[k][1].kind = "item" \/ seen[k][2].kind = "item"

\* C5 as stated: once a poll has returned a failure, no later poll returns a
\* pair.
C5_NoPairAfterFailure ==
    \A i \in 1..Len(out) : \A j \in (i + 1)..Len(out) :
        out[i].kind = "err" => out[j].kind # "pair"

\* C5 as amended: a failure is surfaced and does not end the stream; a pair
\* is returned after the first failure only when a source has yielded a new
\* item in the failing poll or in a later one.
C5_PairAfterFailureIsNew ==
    \A i \in 1..Len(out) : \A j \in (i + 1)..Len(out) :
        (FirstFailure(i) /\ out[j].kind = "pair") =>
            \E k \in i..j : SideYielded(k)

\* As in zip_with_error_left: side 1 fails between two of its items, side 2
\* is 0,1,2, and a pair follows the failure.
C5_Witness ==
    /\ \E i \in 1..Len(out) : \E j \in (i + 1)..Len(out) :
          FirstFailure(i) /\ out[j].kind = "pair"
    /\ HasKind(in1, "err") /\ AllItems(in2) /\ Len(in2) = 3

\* C6: a poll in which a queried source fails returns that source's
\* failure value, and a poll returns a failure only when a source it
\* queried in that poll failed (no failure is kept for a later poll).
C6_FailureSamePoll ==
    \A k \in 1..Len(out) :
        /\ seen[k][1].kind = "err" => out[k] = Failure(seen[k][1].val)
        /\ seen[k][2].kind = "err" => out[k] = Failure(seen[k][2].val)
        /\ out[k].kind = "err" =>
              (seen[k][1].kind = "err" \/ seen[k][2].kind = "err")

\* Side 2 fails with its second failure value in a poll in which side 1
\* yielded an item.
C6_Witness ==
    \E k \in 1..Len(out) :
        /\ seen[k][1].kind = "item" /\ seen[k][2].kind = "err"
        /\ seen[k][2].val = 1
        /\ out[k] = Failure(1)

\* C7 as stated: once a poll has returned completion, every later poll
\* returns completion.
C7_CompletionTerminal ==
    \A i \in 1..Len(out) : \A j \in (i + 1)..Len(out) :
        out[i] = Done => out[j] = Done

\* C7 as amended: once a poll has returned completion, every later poll
\* returns completion, except a poll in which a source that is queried
\* fails, which returns that failure; no later poll returns a pair or
\* not-ready.
C7_CompletionOrFailure ==
    \A i \in 1..Len(out) : \A j \in (i + 1)..Len(out) :
        out[i] = Done =>
            \/ out[j] = Done
            \/ /\ out[j].kind = "err"
               /\ seen[j][1].kind = "err" \/ seen[j][2].kind = "err"

\* Completion was returned while source 2 had not finished, source 2 went
\* on to yield an item, and completion was returned again.
C7_Witness ==
    \E i \in 1..Len(out) : \E j \in (i + 1)..Len(out) :
        /\ out[i] = Done /\ out[j] = Done
        /\ seen[i][2].kind = "pending" /\ seen[j][2].kind = "item"

\* C8: after a poll has returned completion no later poll returns a pair,
\* even if the unfinished source keeps yielding items.
C8_NoPairAfterCompletion ==
    \A i \in 1..Len(out) : \A j \in (i + 1)..Len(out) :
        out[i] = Done => out[j].kind # "pair"

\* Completion was returned and the unfinished source 1 yielded an item in a
\* later poll.
C8_Witness ==
    \E i \in 1..Len(out) : \E j \in (i + 1)..Len(out) :
        /\ out[i] = Done
        /\ seen[j][1].kind = "item"
        /\ out[j] = Done

\* The item that side `side` fetched in poll k is part of a pair returned
\* in one of the polls k..(n-1).
PairedBefore(side, k, n) ==
    \E j \in k..(n - 1) :
        /\ out[j].kind = "pair"
        /\ (IF side = 1 THEN out[j].v1 ELSE out[j].v2) = seen[k][side].val

\* C9: a value stored in a slot is not overwritten before it was part of a
\* returned pair: between two fetches of an item from the same source, the
\* first item is returned in a pair.
C9_NoLoss ==
    \A side \in {1, 2} :
        \A k \in 1..Len(out) : \A n \in (k + 1)..Len(out) :
            (seen[k][side].kind = "item" /\ seen[n][side].kind = "item")
                => PairedBefore(side, k, n)

\* Side 1 fetched an item that waited two polls for side 2's first item,
\* was paired, and was then overwritten.
C9_Witness ==
    \E k \in 1..Len(out) : \E n \in (k + 3)..Len(out) :
        /\ seen[k][1].kind = "item" /\ seen[n][1].kind = "item"
        /\ out[k] = NotReady /\ out[k + 1] = NotReady
        /\ PairedBefore(1, k, n)

\* The number of the query at which the source with list l first answers
\* completion.
RECURSIVE FirstCompletion(_, _)
FirstCompletion(l, i) ==
    IF i > Len(l) \/ l[i].kind = "none" THEN i
    ELSE FirstCompletion(l, i + 1)

\* C10: a source is never queried after the query at which it answered
\* completion, whatever the other source does, and the wrapper's flag says
\* exactly whether that query was made.
C10_NoQueryAfterCompletion ==
    /\ stream1.stream.next <= FirstCompletion(in1, 1)
    /\ stream2.stream.next <= FirstCompletion(in2, 1)
    /\ is_done(stream1) <=> stream1.stream.next = FirstCompletion(in1, 1)
    /\ is_done(stream2) <=> stream2.stream.next = FirstCompletion(in2, 1)

\* Source 1 completed at its first query and has entries left, and the
\* adapter went on polling for source 2's items.
C10_Witness ==
    /\ Len(in1) >= 2 /\ in1[1].kind = "none" /\ in1[2].kind = "item"
    /\ stream1.stream.next = 1 /\ is_done(stream1)
    /\ Len(out) >= 3
    /\ \E k \in 2..Len(out) : seen[k][2].kind = "item"

RequeryStep ==
    (Len(out) > 0) =>
        /\ LastSeen[1].kind = "err"
              => stream1'.stream.next = stream1.stream.next + 1
        /\ LastSeen[2].kind = "err"
              => \/ LastSeen'[1].kind = "err"
                 \/ stream2'.stream.next = stream2.stream.next + 1

Swapped(r) == IF r.kind = "pair" THEN Pair(r.v2, r.v1) ELSE r

\* C12: for two sources that never fail, the adapter built on the sources
\* in the other order returns, poll by poll, the same kind of result, a pair
\* having its components exchanged: the order in which the two sides are
\* refreshed cannot be observed.
C12_OrderUnobservable ==
    (NoErr(in1) /\ NoErr(in2)) =>
        LET mirror == Polled(ZipLatest(in2, in1), Len(out)).out
        IN  \A i \in 1..Len(out) : out[i] = Swapped(mirror[i])

\* Two different never-failing sources, one with a not-ready outcome, one
\* ending early, polled to completion with pairs whose components differ.
C12_Witness ==
    /\ NoErr(in1) /\ NoErr(in2) /\ in1 # in2
    /\ HasKind(in1, "pending") /\ HasKind(in2, "none")
    /\ Len(out) >= 3 /\ LastOut = Done
    /\ \E i \in 1..Len(out) : out[i].kind = "pair" /\ out[i].v1 # out[i].v2
    /\ \E i \in 1..Len(out) : out[i] = NotReady

\* The slot holds a value that enqueue must not overwrite.
HoldsFresh(queued, queued_fresh) == queued # NoItem /\ queued_fresh

\* In one poll a side is left unqueried exactly when its refresh finds its
\* slot non-empty and fresh; side 2 is refreshed only if side 1 did not
\* fail.
QueryStep ==
    /\ HoldsFresh(queued1, queued1_fresh) <=> LastSeen'[1] = Skipped
    /\ LastSeen'[1].kind # "err" =>
          (HoldsFresh(queued2, queued2_fresh) <=> LastSeen'[2] = Skipped)

\* C13: a source is not queried in a poll whose refresh finds its slot
\* non-empty and fresh, and is queried when the refresh finds the slot empty
\* or holding a value that was already returned in a pair: a side whose
\* refresh ran without querying holds an item fetched after every pair
\* returned since its last fetch.
C13_QueryIffStale ==
    /\ [][QueryStep]_vars
    /\ [](\A side \in {1, 2} : \A k \in 2..Len(out) :
            (seen[k][side] = Skipped /\ seen[k][1].kind # "err") =>
                \A j \in 1..(k - 1) :
                    out[j].kind = "pair"
                        => \E h \in (j + 1)..(k - 1) :
                              seen[h][side].kind = "item")

\* Side 1 holds a fresh value and is left alone for two polls while side 2
\* is not ready, and is queried again right after the pair was returned.
C13_Witness ==
    \E k \in 2..(Len(out) - 2) :
        /\ seen[k - 1][1].kind = "item"
        /\ seen[k][1] = Skipped /\ seen[k + 1][1] = Skipped
        /\ out[k + 1].kind = "pair"
        /\ seen[k + 2][1].kind = "item"

\* C14: a poll in which side 1 fails returns side 1's failure without
\* querying side 2: stream 2, slot 2 and its freshness flag are unchanged,
\* also when the next outcome of source 2 is a failure too.
C14_FirstFailureOnly ==
    [][LastSeen'[1].kind = "err" =>
         /\ LastOut' = Failure(LastSeen'[1].val)
         /\ LastSeen'[2] = Skipped
         /\ stream2' = stream2
         /\ queued2' = queued2
         /\ queued2_fresh' = queued2_fresh]_vars

\* Side 1 fails with its second failure value in a poll in which source 2
\* was about to fail with its first, and side 2 was not queried.
C14_Witness ==
    /\ Len(out) > 0 /\ LastSeen[1] = Outcome("err", 1)
    /\ LastOut = Failure(1)
    /\ ~is_done(stream2)
    /\ stream2.stream.next < Len(in2)
    /\ in2[stream2.stream.next + 1] = Outcome("err", 0)
    /\ ~HoldsFresh(queued2, queued2_fresh)

\* The value in the slot is part of no pair returned so far.
NeverPaired(side, queued) ==
    \A j \in 1..Len(out) :
        out[j].kind = "pair" =>
            (IF side = 1 THEN out[j].v1 ELSE out[j].v2) # queued

\* C15: a freshness flag that is true means its slot is non-empty and holds
\* a value that is part of no returned pair; before the first poll both
\* slots are empty and not fresh.
C15_FreshMeansUnpaired ==
    /\ Len(out) = 0 =>
          /\ queued1 = NoItem /\ ~queued1_fresh
          /\ queued2 = NoItem /\ ~queued2_fresh
    /\ queued1_fresh => (queued1 # NoItem /\ NeverPaired(1, queued1))
    /\ queued2_fresh => (queued2 # NoItem /\ NeverPaired(2, queued2))

\* Side 1 holds its second item, fresh, after its first was returned in a
\* pair: side 2 failed in the poll that fetched it.
C15_Witness ==
    /\ queued1_fresh /\ queued1 = 1 /\ ~queued2_fresh /\ queued2 = 0
    /\ \E j \in 1..Len(out) : out[j] = Pair(0, 0)
    /\ Len(out) > 0 /\ LastSeen[2].kind = "err"

\* What one poll may do to a slot (q, f before, q2, f2 after), given what
\* the side answered in it.
SlotFrame(q, f, q2, f2, answer, result) ==
    /\ answer.kind = "item" => q2 = answer.val
    /\ answer.kind # "item" =>
          /\ q2 = q
          /\ f2 = f \/ (result.kind = "pair" /\ ~f2)
    /\ q # NoItem => q2 # NoItem

\* C16: the value of a slot changes only when its own source yields an item
\* in that poll; a non-empty slot never becomes empty; a poll in which the
\* source answers completion or not-ready, fails or is not queried leaves
\* the value and the freshness flag as they were, except that returning a
\* pair clears the flag.
C16_SlotFrame ==
    [][/\ SlotFrame(queued1, queued1_fresh, queued1', queued1_fresh',
                    LastSeen'[1], LastOut')
       /\ SlotFrame(queued2, queued2_fresh, queued2', queued2_fresh',
                    LastSeen'[2], LastOut')]_vars

\* Source 1 has completed and failed and been not ready while slot 1 kept
\* its first item, which was paired with a later item of side 2.
C16_Witness ==
    /\ queued1 = 0 /\ is_done(stream1)
    /\ \E k \in 1..Len(out) : seen[k][1].kind = "err"
    /\ \E k \in 1..Len(out) : seen[k][1].kind = "pending"
    /\ \E k \in 1..Len(out) : out[k] = Pair(0, 1)

\* C17: a poll that ends without a failure while a source is finished and
\* its own slot is empty returns completion, whatever the other side holds;
\* and with both slots non-empty completion is returned only when both
\* sources are finished.
C17_EarlyTermination ==
    (Len(out) > 0 /\ LastOut.kind # "err") =>
        /\ ((is_done(stream1) /\ queued1 = NoItem)
              \/ (is_done(stream2) /\ queued2 = NoItem)) => LastOut = Done
        /\ (queued1 # NoItem /\ queued2 # NoItem /\ LastOut = Done)
              => (is_done(stream1) /\ is_done(stream2))

\* Completion is returned because source 1 finished with an empty slot,
\* while source 2 is unfinished and slot 2 holds a fresh item that is never
\* returned.
C17_Witness ==
    /\ Len(out) > 0 /\ LastOut = Done
    /\ is_done(stream1) /\ queued1 = NoItem
    /\ ~is_done(stream2) /\ queued2 # NoItem /\ queued2_fresh
    /\ stream2.stream.next < Len(in2)

\* C18: a poll that returns not-ready has queried at least one source that
\* answered not-ready in that same poll; it never returns not-ready when
\* every side was skipped, yielded or is finished.
C18_NoLostWakeup ==
    \A k \in 1..Len(out) :
        out[k] = NotReady =>
            (seen[k][1].kind = "pending" \/ seen[k][2].kind = "pending")

\* Not-ready is returned in a poll that left side 1 unqueried and in which
\* side 2 answered not-ready, and in a poll in which side 1 answered
\* completion and side 2 not-ready.
C18_Witness ==
    /\ \E k \in 1..Len(out) :
          /\ out[k] = NotReady
          /\ seen[k][1] = Skipped /\ seen[k][2].kind = "pending"
    /\ \E k \in 1..Len(out) :
          /\ out[k] = NotReady
          /\ seen[k][1].kind = "none" /\ seen[k][2].kind = "pending"

NumItems(l) == Cardinality({i \in 1..Len(l) : l[i].kind = "item"})
NumPairs == Cardinality({i \in 1..Len(out) : out[i].kind = "pair"})

\* C19: every returned pair has a component that is in no earlier pair;
\* between two returned pairs a source yielded a new item; and two
\* never-failing sources of m >= 1 and n >= 1 items give at most m+n-1
\* pairs.
C19_EveryPairIsNew ==
    /\ \A j \in 1..Len(out) :
          out[j].kind = "pair" =>
              \/ \A i \in 1..(j - 1) :
                    out[i].kind = "pair" => out[i].v1 # out[j].v1
              \/ \A i \in 1..(j - 1) :
                    out[i].kind = "pair" => out[i].v2 # out[j].v2
    /\ \A i \in 1..Len(out) : \A j \in (i + 1)..Len(out) :
          (out[i].kind = "pair" /\ out[j].kind = "pair")
              => \E k \in (i + 1)..j : SideYielded(k)
    /\ (NoErr(in1) /\ NoErr(in2) /\ NumItems(in1) >= 1
          /\ NumItems(in2) >= 1)
          => NumPairs <= NumItems(in1) + NumItems(in2) - 1

\* Two sources of two items each that take turns being not ready give the
\* three pairs the bound allows, each new in one component only.
C19_Witness ==
    /\ NoErr(in1) /\ NoErr(in2)
    /\ NumItems(in1) = 2 /\ NumItems(in2) = 2
    /\ NumPairs = 3
    /\ \E i \in 1..Len(out) : out[i] = Pair(0, 1) \/ out[i] = Pair(1, 0)

\* The caller has received completion.
Completed == \E i \in 1..Len(out) : out[i] = Done

\* Every item the source with list l yields before it completes is the
\* component `side` of a pair returned before poll i.
AllPairedBefore(side, l, i) ==
    \A p \in 1..(FirstCompletion(l, 1) - 1) :
        l[p].kind = "item" =>
            \E j \in 1..(i - 1) :
                /\ out[j].kind = "pair"
                /\ (IF side = 1 THEN out[j].v1 ELSE out[j].v2) = l[p].val

YieldsItem(l) ==
    \E p \in 1..(FirstCompletion(l, 1) - 1) : l[p].kind = "item"

\* C20: with two finite sources that never fail and are not ready only
\* finitely often, an adapter that keeps being polled eventually returns
\* completion; when both sources yield an item, it returns completion only
\* after every item of both sources was returned in a pair.
C20_EventuallyCompletes ==
    /\ <>Completed
    /\ [](\A i \in 1..Len(out) :
            (out[i] = Done /\ YieldsItem(in1) /\ YieldsItem(in2)) =>
                (AllPairedBefore(1, in1, i) /\ AllPairedBefore(2, in2, i)))

\* Completion after both sources, each not ready in between, yielded three
\* and two items, the last pair reusing side 2's last item.
C20_Witness ==
    /\ Completed /\ LastOut = Done
    /\ NumItems(in1) = 3 /\ NumItems(in2) = 2
    /\ HasKind(in1, "pending") /\ HasKind(in2, "pending")
    /\ out[Len(out) - 1].kind = "pair" /\ out[Len(out) - 1].v1 = 2
    /\ AllPairedBefore(1, in1, Len(out)) /\ AllPairedBefore(2, in2, Len(out))
====
